---- MODULE Spec2Model ----
(***************************************************************************)
(* Model of the Hebrew TTS chunking-and-reassembly pipeline:               *)
(*   text_chunker.py      HebrewTextChunker, prepare_chunked_texts          *)
(*   chunked_inference.py concatenate_audio_files, infer_chunked_text       *)
(*   handler.py           handler                                           *)
(* A text is a sequence of one-character strings.                           *)
(***************************************************************************)
EXTENDS Integers, Sequences, FiniteSets, TLC

VARIABLES text, max_chars, entry, enable_chunking, add_silence,
          pc, chunks, rechunks, texts_with_filenames, is_chunked,
          idx, calls, artifact, files, chunk_audio_files, chunk_info,
          extended_audio_files, audio_tensors, concat_ok, result, response,
          temp_dir, unlink_failed

vars == <<text, max_chars, entry, enable_chunking, add_silence,
          pc, chunks, rechunks, texts_with_filenames, is_chunked,
          idx, calls, artifact, files, chunk_audio_files, chunk_info,
          extended_audio_files, audio_tensors, concat_ok, result, response,
          temp_dir, unlink_failed>>

(***************************************************************************)
(* Bounds of the model.                                                    *)
(***************************************************************************)
MaxLen == 5
MaxCharsBound == 4

(***************************************************************************)
(* Program constants.                                                      *)
(***************************************************************************)
token_ceiling == 400
max_words == 20
sample_rate == 24000
silence_duration_ms == 300

\* the character classes of the three regular expressions
sentence_ends == {".", "!", "?", "GERSHAYIM", "GERESH"}
clause_boundaries == {",", ";", ":", "ENDASH", "EMDASH", "MAQAF"}
Whitespace == {" ", "\t", "\n"}

\* the characters the bounded input texts are drawn from
Alphabet == {"a", "b", " ", ".", ","}

SetMin(S) == CHOOSE x \in S : \A y \in S : x <= y
SetMax(S) == CHOOSE x \in S : \A y \in S : y <= x

(***************************************************************************)
(* str.strip(): drop leading and trailing whitespace.                      *)
(***************************************************************************)
strip(s) ==
    IF \A k \in 1..Len(s) : s[k] \in Whitespace THEN <<>>
    ELSE LET first == CHOOSE k \in 1..Len(s) :
                          /\ s[k] \notin Whitespace
                          /\ \A j \in 1..(k-1) : s[j] \in Whitespace
             last  == CHOOSE k \in 1..Len(s) :
                          /\ s[k] \notin Whitespace
                          /\ \A j \in (k+1)..Len(s) : s[j] \in Whitespace
         IN SubSeq(s, first, last)

\* " ".join(parts)
RECURSIVE join(_)
join(parts) ==
    IF Len(parts) = 0 THEN <<>>
    ELSE IF Len(parts) = 1 THEN parts[1]
    ELSE parts[1] \o <<" ">> \o join(Tail(parts))

\* last index of the whitespace run that follows position p
RunEnd(s, p) ==
    IF p < Len(s) /\ s[p+1] \in Whitespace
    THEN CHOOSE e \in (p+1)..Len(s) :
             /\ \A j \in (p+1)..e : s[j] \in Whitespace
             /\ (e = Len(s) \/ s[e+1] \notin Whitespace)
    ELSE p

(***************************************************************************)
(* re.split of the pattern [delims][\s]* : the delimiter and the           *)
(* whitespace after it are removed, the parts between matches are kept     *)
(* (empty parts included).                                                 *)
(***************************************************************************)
RECURSIVE re_split(_, _, _)
re_split(delims, s, from) ==
    LET hits == {k \in from..Len(s) : s[k] \in delims}
    IN IF hits = {} THEN <<SubSeq(s, from, Len(s))>>
       ELSE LET p == SetMin(hits)
            IN <<SubSeq(s, from, p - 1)>> \o re_split(delims, s, RunEnd(s, p) + 1)

\* re.split of the pattern \s+
RECURSIVE word_split(_, _)
word_split(s, from) ==
    LET hits == {k \in from..Len(s) : s[k] \in Whitespace}
    IN IF hits = {} THEN <<SubSeq(s, from, Len(s))>>
       ELSE LET p == SetMin(hits)
            IN <<SubSeq(s, from, p - 1)>> \o word_split(s, RunEnd(s, p - 1) + 1)

\* [p.strip() for p in parts if p.strip()]
StripNonEmpty(parts) ==
    SelectSeq([k \in 1..Len(parts) |-> strip(parts[k])], LAMBDA p : p # <<>>)

estimate_token_count(t) == (2 * Len(t)) \div 3

split_by_sentences(t) == StripNonEmpty(re_split(sentence_ends, t, 1))

split_by_clauses(t) == StripNonEmpty(re_split(clause_boundaries, t, 1))

split_by_words(t) ==
    LET words == word_split(strip(t), 1)
        n == Len(words)
        groups == [g \in 1..((n + max_words - 1) \div max_words) |->
                     join(SubSeq(words, max_words * (g - 1) + 1,
                                 IF max_words * g < n THEN max_words * g ELSE n))]
    IN StripNonEmpty(groups)

\* a budget that excludes a text of exactly max_chars characters
is_chunk_valid_strict(t, mc) ==
    /\ Len(strip(t)) > 0
    /\ Len(t) < mc
    /\ estimate_token_count(t) <= token_ceiling

is_chunk_valid(t, mc) ==
    /\ Len(strip(t)) > 0
    /\ Len(t) <= mc
    /\ estimate_token_count(t) <= token_ceiling

(***************************************************************************)
(* chunk_text: the three nested loops, each threading the pair             *)
(* st = [chunks, current_chunk].                                           *)
(***************************************************************************)
Flush(st) ==
    IF strip(st.current_chunk) # <<>>
    THEN [chunks |-> Append(st.chunks, strip(st.current_chunk)), current_chunk |-> <<>>]
    ELSE st

\* units put into the current chunk with nothing between them
AccumulateFused(st, unit, mc) ==
    LET potential_chunk == strip(st.current_chunk \o unit)
    IN IF Len(potential_chunk) <= mc
       THEN [st EXCEPT !.current_chunk = potential_chunk]
       ELSE [chunks |-> IF strip(st.current_chunk) # <<>>
                        THEN Append(st.chunks, strip(st.current_chunk))
                        ELSE st.chunks,
             current_chunk |-> unit]

\* lines 181-187 and 190-197: try to add a unit to the current chunk
Accumulate(st, unit, mc) ==
    LET potential_chunk == strip(st.current_chunk \o <<" ">> \o unit)
    IN IF Len(potential_chunk) <= mc
       THEN [st EXCEPT !.current_chunk = potential_chunk]
       ELSE [chunks |-> IF strip(st.current_chunk) # <<>>
                        THEN Append(st.chunks, strip(st.current_chunk))
                        ELSE st.chunks,
             current_chunk |-> unit]

\* lines 174-178
AddWordChunk(st, word_chunk, mc) ==
    IF st.current_chunk # <<>> /\ Len(st.current_chunk \o <<" ">> \o word_chunk) > mc
    THEN [chunks |-> Append(st.chunks, strip(st.current_chunk)),
          current_chunk |-> word_chunk]
    ELSE [st EXCEPT !.current_chunk = strip(st.current_chunk \o <<" ">> \o word_chunk)]

RECURSIVE WordLoop(_, _, _, _)
WordLoop(word_chunks, k, st, mc) ==
    IF k > Len(word_chunks) THEN st
    ELSE WordLoop(word_chunks, k + 1, AddWordChunk(st, word_chunks[k], mc), mc)

RECURSIVE ClauseLoop(_, _, _, _)
ClauseLoop(clauses, k, st, mc) ==
    IF k > Len(clauses) THEN st
    ELSE ClauseLoop(clauses, k + 1,
                    IF Len(clauses[k]) > mc
                    THEN WordLoop(split_by_words(clauses[k]), 1, st, mc)
                    ELSE Accumulate(st, clauses[k], mc),
                    mc)

RECURSIVE SentenceLoop(_, _, _, _)
SentenceLoop(sentences, k, st, mc) ==
    IF k > Len(sentences) THEN st
    ELSE SentenceLoop(sentences, k + 1,
                      IF Len(sentences[k]) > mc
                      THEN ClauseLoop(split_by_clauses(sentences[k]), 1, Flush(st), mc)
                      ELSE Accumulate(st, sentences[k], mc),
                      mc)

chunk_text(t0, mc) ==
    LET t == strip(t0)
    IN IF t = <<>> THEN <<>>
       ELSE IF is_chunk_valid(t, mc) THEN <<t>>
       ELSE LET st == Flush(SentenceLoop(split_by_sentences(t), 1,
                                         [chunks |-> <<>>, current_chunk |-> <<>>], mc))
            IN SelectSeq(st.chunks, LAMBDA c : strip(c) # <<>>)

(***************************************************************************)
(* prepare_chunked_texts.  A file name is a sequence of string tokens;     *)
(* the numbers are rendered digit by digit as the format spec 03d does.    *)
(***************************************************************************)
base_filename == "output"

DigitChars == <<"0", "1", "2", "3", "4", "5", "6", "7", "8", "9">>

RECURSIVE Digits(_)
Digits(n) ==
    IF n < 10 THEN <<DigitChars[n + 1]>>
    ELSE Digits(n \div 10) \o <<DigitChars[(n % 10) + 1]>>

\* the number rendered without padding
FmtUnpadded(n) == Digits(n)

\* format(n, "03d"): zero-padded to at least three digits
Fmt03d(n) ==
    LET d == Digits(n)
    IN IF Len(d) >= 3 THEN d ELSE [k \in 1..(3 - Len(d)) |-> "0"] \o d

PartFilename(i, n) ==
    <<base_filename, "_part_">> \o Fmt03d(i) \o <<"_of_">> \o Fmt03d(n)

prepare_chunked_texts(t, mc) ==
    LET cs == chunk_text(t, mc)
    IN IF Len(cs) <= 1
       THEN [plan |-> <<[filename |-> <<base_filename>>,
                         text |-> IF Len(cs) > 0 THEN cs[1] ELSE t]>>,
             is_chunked |-> FALSE]
       ELSE [plan |-> [k \in 1..Len(cs) |->
                          [filename |-> PartFilename(k, Len(cs)), text |-> cs[k]]],
             is_chunked |-> TRUE]

(***************************************************************************)
(* Input texts: every text of at most MaxLen characters over Alphabet,     *)
(* with every max_chars up to MaxCharsBound, and three longer texts: one   *)
(* of more than max_words words, one whose token estimate is over the      *)
(* ceiling while its length is within max_chars, and one made of an        *)
(* oversized sentence of two clauses followed by a short sentence.         *)
(***************************************************************************)
Texts == UNION {[1..n -> Alphabet] : n \in 0..MaxLen}

ManyWords == [k \in 1..(2 * max_words + 1) |-> IF k % 2 = 1 THEN "a" ELSE " "]

\* the least length whose token estimate exceeds token_ceiling
OverTokenLen == (3 * (token_ceiling + 1) + 1) \div 2

LongText == [k \in 1..OverTokenLen |-> IF k % 4 = 0 THEN " " ELSE "a"]

TwoSentences == <<"a", "a", ",", "a", ".", "b">>

ChunkerInputs ==
    (Texts \X (1..MaxCharsBound))
      \cup ({ManyWords} \X (1..MaxCharsBound))
      \cup {<<LongText, OverTokenLen>>}
      \cup ({TwoSentences} \X (1..MaxCharsBound))

NoResult == [success |-> FALSE, path |-> <<>>, chunk_info |-> <<>>]
NoResponse == [kind |-> "none", audio |-> <<>>, chunked |-> FALSE,
               chunk_info |-> <<>>, chunks_processed |-> 0]

\* the state of a run before anything has happened
Idle ==
    /\ chunks = <<>>
    /\ rechunks = <<>>
    /\ texts_with_filenames = <<>>
    /\ is_chunked = FALSE
    /\ idx = 0
    /\ calls = <<>>
    /\ artifact = <<>>
    /\ files = {}
    /\ chunk_audio_files = <<>>
    /\ chunk_info = <<>>
    /\ extended_audio_files = <<>>
    /\ audio_tensors = <<>>
    /\ concat_ok = "none"
    /\ result = NoResult
    /\ response = NoResponse
    /\ temp_dir = "none"
    /\ unlink_failed = {}

pipeline_vars == <<idx, calls, artifact, files, chunk_audio_files, chunk_info,
                   extended_audio_files, audio_tensors, concat_ok, result, response>>
input_vars == <<text, max_chars, entry, enable_chunking, add_silence>>

(***************************************************************************)
(* The segmenter and the planner applied to a bounded input.               *)
(***************************************************************************)
InitChunker ==
    /\ \E inp \in ChunkerInputs : text = inp[1] /\ max_chars = inp[2]
    /\ entry = "chunk_text"
    /\ enable_chunking = TRUE
    /\ add_silence = TRUE
    /\ pc = "start"
    /\ Idle

\* chunker.chunk_text(text)
ChunkText ==
    /\ pc = "start"
    /\ chunks' = chunk_text(text, max_chars)
    /\ pc' = "chunked"
    /\ UNCHANGED <<input_vars, temp_dir, unlink_failed, pipeline_vars, rechunks, texts_with_filenames, is_chunked>>

\* chunker.chunk_text(" ".join(chunks))
Rechunk ==
    /\ pc = "chunked"
    /\ rechunks' = chunk_text(join(chunks), max_chars)
    /\ pc' = "rechunked"
    /\ UNCHANGED <<input_vars, temp_dir, unlink_failed, pipeline_vars, chunks, texts_with_filenames, is_chunked>>

\* prepare_chunked_texts(text, base_filename, max_chars)
Prepare ==
    /\ pc = "rechunked"
    /\ LET r == prepare_chunked_texts(text, max_chars)
       IN /\ texts_with_filenames' = r.plan
          /\ is_chunked' = r.is_chunked
    /\ pc' = "planned"
    /\ UNCHANGED <<input_vars, temp_dir, unlink_failed, pipeline_vars, chunks, rechunks>>

NextChunker == ChunkText \/ Rechunk \/ Prepare

SpecChunker == InitChunker /\ [][NextChunker]_vars

(***************************************************************************)
(* The working directory: a set of files [name, content].  The content of  *)
(* an audio file is its sample rate, the segments it holds in time order,  *)
(* and whether it was written completely.  A synthesized chunk holds one   *)
(* second of speech, so its sample count equals its sample rate.           *)
(***************************************************************************)
Exists(fs, name) == \E f \in fs : f.name = name
Content(fs, name) == (CHOOSE f \in fs : f.name = name).content
RemoveFile(fs, name) == {f \in fs : f.name # name}
WriteFile(fs, name, c) == RemoveFile(fs, name) \cup {[name |-> name, content |-> c]}
RenameFile(fs, from, to) == WriteFile(RemoveFile(fs, from), to, Content(fs, from))

WavPath(filename) == filename \o <<".wav">>
final_path == WavPath(<<base_filename>>)
SilencePath(i) == <<"silence_">> \o Digits(i) \o <<".wav">>

\* audio_file.name.startswith(prefix)
StartsWith(name, prefix) == Len(name) > 0 /\ name[1] = prefix

\* the sample rates a synthesized chunk may come out with
Rates == {sample_rate, sample_rate \div 2}

SpeechFile(k, rate) ==
    [sr |-> rate, complete |-> TRUE,
     segs |-> <<[kind |-> "speech", id |-> k, samples |-> rate, rate |-> rate]>>]

\* torch.zeros(1, int(silence_duration * sample_rate)) saved at sample_rate
silence_samples == (silence_duration_ms * sample_rate) \div 1000

SilenceFile(i) ==
    [sr |-> sample_rate, complete |-> TRUE,
     segs |-> <<[kind |-> "silence", id |-> i, samples |-> silence_samples,
                 rate |-> sample_rate]>>]

\* torchaudio.load followed by the resampling of lines 47-50
LoadResampled(c) ==
    IF c.sr # sample_rate
    THEN [k \in 1..Len(c.segs) |->
            [c.segs[k] EXCEPT !.samples = (c.segs[k].samples * sample_rate) \div c.sr,
                              !.rate = sample_rate]]
    ELSE c.segs

\* torch.cat(audio_tensors, dim=1)
RECURSIVE Cat(_)
Cat(tensors) == IF tensors = <<>> THEN <<>> ELSE Head(tensors) \o Cat(Tail(tensors))

\* a silence after every chunk, the last one included
NeedsSilenceAfterLast(i, n) == i < n

\* line 182: silence goes after chunk i (0-based) of n unless it is the last
NeedsSilence(i, n) == i < n - 1

\* handler.py line 128 and test_api.py line 77
should_chunk == enable_chunking /\ ~is_chunk_valid(text, max_chars)

\* handler.py line 151
ChunkedFailed(res, fs) == ~res.success \/ res.path = <<>> \/ ~Exists(fs, res.path)

ErrorResponse(info) ==
    [kind |-> "error", audio |-> <<>>, chunked |-> FALSE,
     chunk_info |-> info, chunks_processed |-> 0]

\* where control goes when infer_chunked_text returns
ReturnPc == IF entry = "handler" THEN "h_result" ELSE "done"

Return(success, path, info) ==
    /\ result' = [success |-> success, path |-> path, chunk_info |-> info]
    /\ pc' = ReturnPc

chunker_vars == <<chunks, rechunks>>

(***************************************************************************)
(* Inputs of a pipeline run.                                               *)
(***************************************************************************)
PipeTexts ==
    { <<>>, <<" ">>, <<"a">>, <<"a", " ">>, <<".", ".">>, <<"a", ".", "b">>,
      <<"a", " ", "b">>, <<"a", ".", "b", ",", "a">> }

\* handler(job), or infer_chunked_text called directly, in a fresh directory
InitRun ==
    /\ text \in PipeTexts
    /\ max_chars \in 1..MaxCharsBound
    /\ entry \in {"handler", "infer_chunked_text"}
    /\ enable_chunking \in BOOLEAN
    /\ add_silence \in BOOLEAN
    /\ entry = "handler" => add_silence
    /\ entry = "infer_chunked_text" => enable_chunking
    /\ pc = IF entry = "handler" THEN "handler" ELSE "plan"
    /\ Idle

\* concatenate_audio_files called on two chunk files, any of which may be missing
InitConcat ==
    /\ text = <<>>
    /\ max_chars = 1
    /\ entry = "concatenate_audio_files"
    /\ enable_chunking = TRUE
    /\ add_silence = FALSE
    /\ pc = "load"
    /\ chunks = <<>>
    /\ rechunks = <<>>
    /\ texts_with_filenames = <<>>
    /\ is_chunked = FALSE
    /\ idx = 1
    /\ calls = <<>>
    /\ artifact = <<>>
    /\ \E present \in SUBSET {1, 2} : \E rate \in Rates :
          files = {[name |-> WavPath(PartFilename(k, 2)), content |-> SpeechFile(k, rate)]
                      : k \in present}
    /\ chunk_audio_files = <<WavPath(PartFilename(1, 2)), WavPath(PartFilename(2, 2))>>
    /\ chunk_info = <<>>
    /\ extended_audio_files = <<>>
    /\ audio_tensors = <<>>
    /\ concat_ok = "none"
    /\ result = NoResult
    /\ response = NoResponse
    /\ temp_dir = "created"
    /\ unlink_failed = {}

Init == InitRun \/ InitConcat

(***************************************************************************)
(* handler (handler.py).                                                   *)
(***************************************************************************)
\* the temporary directory is created and removed before the text is looked at
HandlerEmptyTextAfterDir ==
    /\ pc = "handler"
    /\ strip(text) = <<>>
    /\ response' = ErrorResponse(<<>>)
    /\ temp_dir' = "removed"
    /\ pc' = "done"
    /\ UNCHANGED <<input_vars, unlink_failed, chunker_vars, texts_with_filenames,
                   is_chunked, idx, calls, artifact, files, chunk_audio_files,
                   chunk_info, extended_audio_files, audio_tensors, concat_ok, result>>

\* lines 105-106: empty text is rejected before anything else happens
HandlerEmptyText ==
    /\ pc = "handler"
    /\ strip(text) = <<>>
    /\ response' = ErrorResponse(<<>>)
    /\ pc' = "done"
    /\ UNCHANGED <<input_vars, temp_dir, unlink_failed, chunker_vars, texts_with_filenames, is_chunked, idx, calls,
                   artifact, files, chunk_audio_files, chunk_info, extended_audio_files,
                   audio_tensors, concat_ok, result>>

\* lines 119-134: the temporary directory is created; the text is not valid
\* as one chunk, call infer_chunked_text
HandlerChunked ==
    /\ pc = "handler"
    /\ strip(text) # <<>>
    /\ should_chunk
    /\ pc' = "plan"
    /\ temp_dir' = "created"
    /\ UNCHANGED <<input_vars, unlink_failed, chunker_vars, texts_with_filenames, is_chunked,
                   pipeline_vars>>

\* lines 119 and 174-178: the temporary directory is created; standard
\* inference on the whole text
HandlerSingle ==
    /\ pc = "handler"
    /\ strip(text) # <<>>
    /\ ~should_chunk
    /\ texts_with_filenames' = <<[filename |-> <<base_filename>>, text |-> text]>>
    /\ pc' = "h_infer"
    /\ temp_dir' = "created"
    /\ UNCHANGED <<input_vars, unlink_failed, chunker_vars, is_chunked, pipeline_vars>>

\* lines 180-193 and 217-221: the synthesis call of the single-chunk branch
HandlerInferTexts ==
    /\ pc = "h_infer"
    /\ \E outcome \in {"ok", "nofile", "raise"} : \E rate \in Rates :
          /\ outcome # "ok" => rate = sample_rate
          /\ calls' = Append(calls, texts_with_filenames[1].filename)
          /\ artifact' = Append(artifact, outcome = "ok")
          /\ files' = IF outcome = "ok"
                      THEN WriteFile(files, WavPath(texts_with_filenames[1].filename),
                                     SpeechFile(1, rate))
                      ELSE files
          /\ IF outcome = "raise"
             THEN /\ response' = ErrorResponse(<<>>)
                  /\ temp_dir' = "removed"
                  /\ pc' = "done"
             ELSE /\ response' = response
                  /\ temp_dir' = temp_dir
                  /\ pc' = "h_read"
    /\ UNCHANGED <<input_vars, unlink_failed, chunker_vars, texts_with_filenames, is_chunked, idx,
                   chunk_audio_files, chunk_info, extended_audio_files, audio_tensors,
                   concat_ok, result>>

\* lines 195-215: read the audio of the single-chunk branch; the temporary
\* directory is removed when the with-block is left
HandlerReadSingle ==
    /\ pc = "h_read"
    /\ response' = IF ~Exists(files, final_path)
                   THEN ErrorResponse(<<>>)
                   ELSE [kind |-> "audio", audio |-> <<Content(files, final_path)>>,
                         chunked |-> FALSE, chunk_info |-> <<>>, chunks_processed |-> 0]
    /\ files' = {}
    /\ pc' = "done"
    /\ temp_dir' = "removed"
    /\ UNCHANGED <<input_vars, unlink_failed, chunker_vars, texts_with_filenames, is_chunked, idx, calls,
                   artifact, chunk_audio_files, chunk_info, extended_audio_files,
                   audio_tensors, concat_ok, result>>

\* lines 151-173: the response of the chunked branch
HandlerRespondChunked ==
    /\ pc = "h_result"
    /\ response' = IF ChunkedFailed(result, files)
                   THEN ErrorResponse(result.chunk_info)
                   ELSE [kind |-> "audio", audio |-> <<Content(files, result.path)>>,
                         chunked |-> TRUE, chunk_info |-> result.chunk_info,
                         chunks_processed |-> Len(result.chunk_info)]
    /\ files' = {}
    /\ pc' = "done"
    /\ temp_dir' = "removed"
    /\ UNCHANGED <<input_vars, unlink_failed, chunker_vars, texts_with_filenames, is_chunked, idx, calls,
                   artifact, chunk_audio_files, chunk_info, extended_audio_files,
                   audio_tensors, concat_ok, result>>

(***************************************************************************)
(* infer_chunked_text (chunked_inference.py).                              *)
(***************************************************************************)
\* prepare_chunked_texts is a pure function: its results for the inputs of a
\* pipeline run, computed once
PreparedPlans ==
    {[text |-> inp[1], max_chars |-> inp[2], r |-> prepare_chunked_texts(inp[1], inp[2])]
        : inp \in PipeTexts \X (1..MaxCharsBound)}

\* lines 115-127: output_dir.mkdir(parents=True, exist_ok=True), then the plan
Plan ==
    /\ pc = "plan"
    /\ LET r == (CHOOSE e \in PreparedPlans : e.text = text /\ e.max_chars = max_chars).r
       IN /\ texts_with_filenames' = r.plan
          /\ is_chunked' = r.is_chunked
    /\ idx' = 1
    /\ pc' = "synth"
    /\ temp_dir' = IF entry = "handler" THEN temp_dir ELSE "created"
    /\ UNCHANGED <<input_vars, unlink_failed, chunker_vars, calls, artifact, files, chunk_audio_files,
                   chunk_info, extended_audio_files, audio_tensors, concat_ok, result,
                   response>>

\* lines 134-147: one synthesis call.  It leaves the chunk's audio file, or
\* returns without one, or raises (then lines 214-218 return failure).
InferTexts ==
    /\ pc = "synth"
    /\ \E outcome \in {"ok", "nofile", "raise"} : \E rate \in Rates :
          /\ outcome # "ok" => rate = sample_rate
          /\ calls' = Append(calls, texts_with_filenames[idx].filename)
          /\ artifact' = Append(artifact, outcome = "ok")
          /\ files' = IF outcome = "ok"
                      THEN WriteFile(files, WavPath(texts_with_filenames[idx].filename),
                                     SpeechFile(idx, rate))
                      ELSE files
          /\ IF outcome = "raise"
             THEN Return(FALSE, <<>>, <<>>)
             ELSE /\ pc' = "check"
                  /\ result' = result
    /\ UNCHANGED <<input_vars, temp_dir, unlink_failed, chunker_vars, texts_with_filenames, is_chunked, idx,
                   chunk_audio_files, chunk_info, extended_audio_files, audio_tensors,
                   concat_ok, response>>

\* a driver that skips a chunk without audio and goes on with the next one
CheckChunkSkipMissing ==
    /\ pc = "check"
    /\ LET e == texts_with_filenames[idx]
           chunk_audio_path == WavPath(e.filename)
           present == Exists(files, chunk_audio_path)
       IN /\ chunk_audio_files' = IF present
                                  THEN Append(chunk_audio_files, chunk_audio_path)
                                  ELSE chunk_audio_files
          /\ chunk_info' = IF present
                           THEN Append(chunk_info,
                                       [filename |-> e.filename, chars |-> Len(e.text)])
                           ELSE chunk_info
          /\ idx' = idx + 1
          /\ pc' = IF idx + 1 > Len(texts_with_filenames) THEN "after" ELSE "synth"
          /\ result' = result
    /\ UNCHANGED <<input_vars, temp_dir, unlink_failed, chunker_vars, texts_with_filenames, is_chunked, calls,
                   artifact, files, extended_audio_files, audio_tensors, concat_ok,
                   response>>

\* lines 150-157: was the audio file created?
CheckChunk ==
    /\ pc = "check"
    /\ LET e == texts_with_filenames[idx]
           chunk_audio_path == WavPath(e.filename)
       IN IF Exists(files, chunk_audio_path)
          THEN /\ chunk_audio_files' = Append(chunk_audio_files, chunk_audio_path)
               /\ chunk_info' = Append(chunk_info,
                                       [filename |-> e.filename, chars |-> Len(e.text)])
               /\ idx' = idx + 1
               /\ pc' = IF idx + 1 > Len(texts_with_filenames) THEN "after" ELSE "synth"
               /\ result' = result
          ELSE /\ Return(FALSE, <<>>, chunk_info)
               /\ UNCHANGED <<chunk_audio_files, chunk_info, idx>>
    /\ UNCHANGED <<input_vars, temp_dir, unlink_failed, chunker_vars, texts_with_filenames, is_chunked, calls,
                   artifact, files, extended_audio_files, audio_tensors, concat_ok,
                   response>>

\* lines 160-165: one chunk, returned directly (renamed if its name differs)
ReturnSingle ==
    /\ pc = "after"
    /\ Len(chunk_audio_files) = 1
    /\ files' = IF chunk_audio_files[1] # final_path
                THEN RenameFile(files, chunk_audio_files[1], final_path)
                ELSE files
    /\ Return(TRUE, final_path, chunk_info)
    /\ UNCHANGED <<input_vars, temp_dir, unlink_failed, chunker_vars, texts_with_filenames, is_chunked, idx, calls,
                   artifact, chunk_audio_files, chunk_info, extended_audio_files,
                   audio_tensors, concat_ok, response>>

\* a driver that looks at the last chunk a second time before assembling
StartConcatRecheck ==
    /\ pc = "after"
    /\ Len(chunk_audio_files) # 1
    /\ IF Len(chunk_audio_files) = Len(texts_with_filenames)
       THEN /\ pc' = "check"
            /\ idx' = Len(texts_with_filenames)
            /\ result' = result
       ELSE /\ pc' = IF add_silence THEN "silence" ELSE "load"
            /\ idx' = 1
            /\ result' = result
    /\ UNCHANGED <<input_vars, temp_dir, unlink_failed, chunker_vars, texts_with_filenames,
                   is_chunked, calls, artifact, files, chunk_audio_files, chunk_info,
                   extended_audio_files, audio_tensors, concat_ok, response>>

\* lines 168-176 and 211-212
StartConcat ==
    /\ pc = "after"
    /\ Len(chunk_audio_files) # 1
    /\ IF Len(chunk_audio_files) > 1
       THEN /\ pc' = IF add_silence THEN "silence" ELSE "load"
            /\ idx' = 1
            /\ result' = result
       ELSE /\ Return(FALSE, <<>>, chunk_info)
            /\ idx' = idx
    /\ UNCHANGED <<input_vars, temp_dir, unlink_failed, chunker_vars, texts_with_filenames, is_chunked, calls,
                   artifact, files, chunk_audio_files, chunk_info, extended_audio_files,
                   audio_tensors, concat_ok, response>>

\* lines 178-190: one iteration of the silence loop; saving the silence
\* file may raise, with or without leaving a partly written file
AddSilence ==
    /\ pc = "silence"
    /\ LET n == Len(chunk_audio_files)
           need == NeedsSilence(idx - 1, n)
           silence_path == SilencePath(idx - 1)
           extended == extended_audio_files \o <<chunk_audio_files[idx]>>
                          \o (IF need THEN <<silence_path>> ELSE <<>>)
       IN \E outcome \in {"ok", "raise"} : \E leftover \in BOOLEAN :
             /\ outcome = "raise" => need
             /\ outcome = "ok" => ~leftover
             /\ IF outcome = "ok"
                THEN /\ files' = IF need
                                 THEN WriteFile(files, silence_path, SilenceFile(idx - 1))
                                 ELSE files
                     /\ extended_audio_files' = extended
                     /\ IF idx = n
                        THEN /\ chunk_audio_files' = extended
                             /\ idx' = 1
                             /\ pc' = "load"
                        ELSE /\ chunk_audio_files' = chunk_audio_files
                             /\ idx' = idx + 1
                             /\ pc' = pc
                     /\ result' = result
                ELSE /\ files' = IF leftover
                                 THEN WriteFile(files, silence_path,
                                        [SilenceFile(idx - 1) EXCEPT !.complete = FALSE])
                                 ELSE files
                     /\ extended_audio_files' =
                           Append(extended_audio_files, chunk_audio_files[idx])
                     /\ Return(FALSE, <<>>, <<>>)
                     /\ UNCHANGED <<idx, chunk_audio_files>>
    /\ UNCHANGED <<input_vars, temp_dir, unlink_failed, chunker_vars, texts_with_filenames, is_chunked, calls,
                   artifact, chunk_info, audio_tensors, concat_ok, response>>

(***************************************************************************)
(* concatenate_audio_files (chunked_inference.py lines 21-70), called at   *)
(* line 194 or directly, and the lines 196-209 that use its result.        *)
(***************************************************************************)
\* the result of concatenate_audio_files ignored: success is returned anyway
ConcatFailedIgnored ==
    /\ concat_ok' = "failed"
    /\ IF entry = "concatenate_audio_files"
       THEN /\ pc' = "done"
            /\ result' = result
       ELSE Return(TRUE, final_path, chunk_info)

\* concatenate_audio_files returned False
ConcatFailed ==
    /\ concat_ok' = "failed"
    /\ IF entry = "concatenate_audio_files"
       THEN /\ pc' = "done"
            /\ result' = result
       ELSE Return(FALSE, <<>>, chunk_info)

\* lines 38-53: one iteration of the loading loop
LoadAudio ==
    /\ pc = "load"
    /\ LET audio_file == chunk_audio_files[idx]
       IN IF ~Exists(files, audio_file)
          THEN /\ ConcatFailed
               /\ UNCHANGED <<audio_tensors, idx>>
          ELSE \E outcome \in {"ok", "raise"} :
                  IF outcome = "ok"
                  THEN /\ audio_tensors' =
                             Append(audio_tensors, LoadResampled(Content(files, audio_file)))
                       /\ idx' = idx + 1
                       /\ pc' = IF idx + 1 > Len(chunk_audio_files) THEN "save" ELSE "load"
                       /\ UNCHANGED <<concat_ok, result>>
                  ELSE /\ ConcatFailed
                       /\ UNCHANGED <<audio_tensors, idx>>
    /\ UNCHANGED <<input_vars, temp_dir, unlink_failed, chunker_vars, texts_with_filenames, is_chunked, calls,
                   artifact, files, chunk_audio_files, chunk_info, extended_audio_files,
                   response>>

\* lines 55-70: concatenate and save.  torchaudio.save writes straight to
\* output_path, so a save that raises may leave a partly written file there.
SaveConcat ==
    /\ pc = "save"
    /\ IF audio_tensors = <<>>
       THEN /\ ConcatFailed
            /\ UNCHANGED <<files, idx>>
       ELSE LET concatenated == Cat(audio_tensors)
            IN \E outcome \in {"ok", "raise"} : \E leftover \in BOOLEAN :
                  /\ outcome = "ok" => ~leftover
                  /\ IF outcome = "ok"
                     THEN /\ files' = WriteFile(files, final_path,
                                         [sr |-> sample_rate, complete |-> TRUE,
                                          segs |-> concatenated])
                          /\ concat_ok' = "ok"
                          /\ idx' = 1
                          /\ pc' = IF entry = "concatenate_audio_files"
                                   THEN "done" ELSE "cleanup"
                          /\ result' = result
                     ELSE /\ files' = IF leftover
                                      THEN WriteFile(files, final_path,
                                              [sr |-> sample_rate, complete |-> FALSE,
                                               segs |-> concatenated])
                                      ELSE files
                          /\ ConcatFailed
                          /\ idx' = idx
    /\ UNCHANGED <<input_vars, temp_dir, unlink_failed, chunker_vars, texts_with_filenames, is_chunked, calls,
                   artifact, chunk_audio_files, chunk_info, extended_audio_files,
                   audio_tensors, response>>

\* only the chunk files are deleted, the silence files are kept
ShouldUnlinkChunksOnly(audio_file) == StartsWith(audio_file, base_filename)

\* line 203: the files the cleanup loop deletes
ShouldUnlink(audio_file) ==
    StartsWith(audio_file, base_filename) \/ StartsWith(audio_file, "silence_")

\* lines 196-206: delete one chunk or silence file; a failed unlink is ignored
Cleanup ==
    /\ pc = "cleanup"
    /\ LET audio_file == chunk_audio_files[idx]
       IN \E outcome \in {"ok", "fail"} :
             /\ ~ShouldUnlink(audio_file) => outcome = "ok"
             /\ files' = IF outcome = "ok" /\ ShouldUnlink(audio_file)
                         THEN RemoveFile(files, audio_file)
                         ELSE files
             /\ unlink_failed' = IF outcome = "fail"
                                 THEN unlink_failed \cup {audio_file}
                                 ELSE unlink_failed
    /\ IF idx = Len(chunk_audio_files)
       THEN /\ Return(TRUE, final_path, chunk_info)
            /\ idx' = idx
       ELSE /\ idx' = idx + 1
            /\ UNCHANGED <<pc, result>>
    /\ UNCHANGED <<input_vars, temp_dir, chunker_vars, texts_with_filenames, is_chunked, calls,
                   artifact, chunk_audio_files, chunk_info, extended_audio_files,
                   audio_tensors, concat_ok, response>>

Next ==
    \/ HandlerEmptyText
    \/ HandlerChunked
    \/ HandlerSingle
    \/ HandlerInferTexts
    \/ HandlerReadSingle
    \/ HandlerRespondChunked
    \/ Plan
    \/ InferTexts
    \/ CheckChunk
    \/ ReturnSingle
    \/ StartConcat
    \/ AddSilence
    \/ LoadAudio
    \/ SaveConcat
    \/ Cleanup

Spec == Init /\ [][Next]_vars

\* the code is sequential and every call it makes returns or raises, so a
\* run that can take a step takes one
FairSpec == Spec /\ WF_vars(Next)

(***************************************************************************)
(* Properties of the segmenter and the planner (checked under SpecChunker) *)
(***************************************************************************)
HasWhitespace(p) == \E j \in 1..Len(p) : p[j] \in Whitespace

\* a text with every run of whitespace collapsed to one space and trimmed
WsNormal(t) == join(SelectSeq(word_split(strip(t), 1), LAMBDA w : w # <<>>))

PlanTexts == [k \in 1..Len(texts_with_filenames) |-> texts_with_filenames[k].text]

\* C1: every piece returned by chunk_text has length <= max_chars, except
\* possibly a piece that is one single word (no whitespace inside it) that
\* is itself longer than max_chars.
C1_PiecesWithinBudget ==
    pc # "start" =>
        \A k \in 1..Len(chunks) :
            Len(chunks[k]) <= max_chars \/ ~HasWhitespace(chunks[k])

\* C2: joining the pieces of chunk_text, and the texts of the chunk plan,
\* with single spaces gives back the trimmed input up to whitespace
\* normalization: no character other than whitespace is dropped or invented.
C2_JoinReconstructsText ==
    /\ pc # "start" => WsNormal(join(chunks)) = WsNormal(text)
    /\ pc = "planned" => WsNormal(join(PlanTexts)) = WsNormal(text)

\* C8: chunk_text never returns an empty or whitespace-only piece, and it
\* returns at least one piece for every text whose trimmed form is non-empty.
C8_NoEmptyPieceNoEmptyResult ==
    pc # "start" =>
        /\ \A k \in 1..Len(chunks) : strip(chunks[k]) # <<>>
        /\ strip(text) # <<>> => Len(chunks) >= 1

\* C9: every entry of the plan made by prepare_chunked_texts satisfies
\* is_chunk_valid: 0 < length <= max_chars and estimated tokens <= 400.
C9_PlanEntriesValid ==
    pc = "planned" =>
        \A k \in 1..Len(texts_with_filenames) :
            is_chunk_valid(texts_with_filenames[k].text, max_chars)

\* C10: chunk_text applied to the single-space join of chunk_text(text)
\* returns the same ordered list of pieces as chunk_text(text).
C10_RejoinIdempotent ==
    pc \in {"rechunked", "planned"} => rechunks = chunks

(***************************************************************************)
(* Properties of the pipeline (checked under Spec)                         *)
(***************************************************************************)
\* the run goes through infer_chunked_text
RanInfer ==
    \/ entry = "infer_chunked_text"
    \/ entry = "handler" /\ strip(text) # <<>> /\ should_chunk

\* infer_chunked_text has returned
Returned == RanInfer /\ pc \in {"h_result", "done"}

\* every planned chunk was synthesized and left its audio file
AllProduced ==
    /\ Len(texts_with_filenames) >= 1
    /\ Len(calls) = Len(texts_with_filenames)
    /\ \A k \in 1..Len(calls) : artifact[k]

Diagnostic(k) ==
    [filename |-> texts_with_filenames[k].filename,
     chars |-> Len(texts_with_filenames[k].text)]

\* C3: the synthesis calls of infer_chunked_text are a prefix of the plan
\* in plan order, one call per entry and no entry twice; the calls cover
\* the whole plan when every call leaves an audio file, and otherwise end at
\* the first entry whose audio file is absent after its call, with no later
\* entry attempted and the run returning failure.
C3_CallsArePlanPrefix ==
    RanInfer =>
        /\ Len(calls) <= Len(texts_with_filenames)
        /\ \A k \in 1..Len(calls) : calls[k] = texts_with_filenames[k].filename
        /\ \A j, k \in 1..Len(calls) : j # k => calls[j] # calls[k]
        /\ \A k \in 1..(Len(calls) - 1) : artifact[k]
        /\ Returned =>
              IF \A k \in 1..Len(calls) : artifact[k]
              THEN Len(calls) = Len(texts_with_filenames)
              ELSE ~artifact[Len(calls)] /\ ~result.success

C3_Witness ==
    /\ Returned
    /\ Len(texts_with_filenames) = 3
    /\ artifact = <<TRUE, FALSE>>
    /\ ~result.success

\* C4: when the k-th planned chunk produces no audio artifact,
\* infer_chunked_text returns failure with no final audio path and with one
\* diagnostics record per attempted chunk: the records of chunks 1..k.
C4_DiagnosticsPerAttemptedChunk ==
    (Returned /\ Len(calls) >= 1 /\ ~artifact[Len(calls)]) =>
        /\ ~result.success
        /\ result.path = <<>>
        /\ result.chunk_info = [k \in 1..Len(calls) |-> Diagnostic(k)]

\* C5: a handler response carries audio only when every planned chunk
\* produced an audio artifact and, for a plan of several chunks, assembly
\* succeeded; every other response is an error without audio, and the audio
\* of a response is never a partly written file.
C5_AudioOnlyOnFullSuccess ==
    (entry = "handler" /\ response.kind # "none") =>
        IF AllProduced /\ (Len(texts_with_filenames) > 1 => concat_ok = "ok")
        THEN response.kind = "audio" => (Len(response.audio) = 1 /\ response.audio[1].complete)
        ELSE response.kind = "error" /\ response.audio = <<>>

C5_Witness ==
    /\ entry = "handler"
    /\ response.kind = "error"
    /\ AllProduced
    /\ Len(texts_with_filenames) = 3
    /\ concat_ok = "failed"

\* C6: whenever the assembling step fails, no file is left at the final
\* output path.
C6_NoFinalFileAfterFailedAssembly ==
    concat_ok = "failed" => ~Exists(files, final_path)

\* the buffers chunk 1, silence, chunk 2, ..., chunk n
Interleaved(n) ==
    [j \in 1..(2 * n - 1) |->
        IF j % 2 = 1
        THEN [kind |-> "speech", id |-> (j + 1) \div 2]
        ELSE [kind |-> "silence", id |-> (j \div 2) - 1]]

\* C7: for a plan of N > 1 chunks that all synthesize, with silence between
\* chunks, the buffers concatenated into the final file are chunk 1,
\* silence, chunk 2, ..., chunk N: N chunks in plan order and N-1 silences
\* of 7200 samples at 24000 Hz (300 ms), none before the first or after the
\* last chunk.
C7_SilenceInterleaved ==
    (RanInfer /\ add_silence /\ concat_ok = "ok") =>
        LET n == Len(texts_with_filenames)
            buffers == Cat(audio_tensors)
        IN /\ n > 1
           /\ Len(buffers) = 2 * n - 1
           /\ \A j \in 1..Len(buffers) :
                 /\ buffers[j].kind = Interleaved(n)[j].kind
                 /\ buffers[j].id = Interleaved(n)[j].id
                 /\ buffers[j].rate = 24000
                 /\ buffers[j].kind = "silence" => buffers[j].samples = 7200
           /\ Exists(files, final_path) => Content(files, final_path).segs = buffers

C7_Witness ==
    /\ RanInfer
    /\ add_silence
    /\ concat_ok = "ok"
    /\ Len(texts_with_filenames) = 3
    /\ Exists(files, final_path)

(***************************************************************************)
(* Properties of the plan identifiers (checked under SpecChunker)          *)
(***************************************************************************)
IsDigit(c) == \E d \in 1..10 : DigitChars[d] = c

\* the number a sequence of decimal digits denotes
RECURSIVE NumberOf(_)
NumberOf(ds) ==
    IF ds = <<>> THEN 0
    ELSE 10 * NumberOf(SubSeq(ds, 1, Len(ds) - 1))
           + ((CHOOSE d \in 1..10 : DigitChars[d] = ds[Len(ds)]) - 1)

\* f reads {base_filename}_part_{i}_of_{n}, both numbers in three digits
IsPartName(f, i, n) ==
    /\ Len(f) = 9
    /\ f[1] = "output"
    /\ f[2] = "_part_"
    /\ f[6] = "_of_"
    /\ \A j \in {3, 4, 5, 7, 8, 9} : IsDigit(f[j])
    /\ NumberOf(SubSeq(f, 3, 5)) = i
    /\ NumberOf(SubSeq(f, 7, 9)) = n

\* C11: the identifiers of a chunk plan are pairwise distinct; when the
\* segmenter returns N > 1 pieces the i-th entry is piece i under the name
\* {base_name}_part_{i}_of_{N}, i and N zero-padded to three digits, and
\* is_multi is true; when it returns at most one piece the plan is the
\* single entry named base_name and is_multi is false.
C11_IdentifiersEncodePosition ==
    pc = "planned" =>
        LET n == Len(texts_with_filenames)
        IN /\ \A i, j \in 1..n :
                 i # j => texts_with_filenames[i].filename # texts_with_filenames[j].filename
           /\ IF Len(chunks) > 1
              THEN /\ is_chunked
                   /\ n = Len(chunks)
                   /\ \A i \in 1..n :
                         /\ IsPartName(texts_with_filenames[i].filename, i, n)
                         /\ texts_with_filenames[i].text = chunks[i]
              ELSE /\ ~is_chunked
                   /\ n = 1
                   /\ texts_with_filenames[1].filename = <<"output">>

C11_Witness ==
    /\ pc = "planned"
    /\ Len(chunks) = 3
    /\ Len(texts_with_filenames) = 3
    /\ is_chunked

\* C16 as stated, "non-empty" being a text of at least one character: for
\* every such text with length <= max_chars and estimated tokens <= 400,
\* chunk_text returns exactly one piece, the trimmed input.
C16_NonEmptyTextIsOnePiece ==
    (/\ pc # "start"
     /\ text # <<>>
     /\ Len(text) <= max_chars
     /\ estimate_token_count(text) <= token_ceiling)
        => chunks = <<strip(text)>>

\* C16: for every text that is non-empty after trimming, with length
\* <= max_chars and estimated tokens <= 400, chunk_text returns exactly one
\* piece and that piece equals the trimmed input: no delimiter is stripped
\* and nothing is split.
C16_ValidTextIsOnePiece ==
    (/\ pc # "start"
     /\ strip(text) # <<>>
     /\ Len(text) <= max_chars
     /\ estimate_token_count(text) <= token_ceiling)
        => chunks = <<strip(text)>>

C16_Witness ==
    /\ pc = "chunked"
    /\ text = <<" ", "a", ".", "b">>
    /\ max_chars = Len(text)
    /\ chunks = << <<"a", ".", "b">> >>

(***************************************************************************)
(* Properties of a pipeline run (checked under Spec), continued            *)
(***************************************************************************)
\* C12: a diagnostic record appended for a chunk that synthesized
\* successfully is still present, in order, in the diagnostics that
\* infer_chunked_text returns, however the run fails afterwards.
C12_DiagnosticsNeverRolledBack ==
    Returned =>
        /\ Len(result.chunk_info) >= Len(chunk_info)
        /\ SubSeq(result.chunk_info, 1, Len(chunk_info)) = chunk_info

\* C18: for empty or whitespace-only text passed to infer_chunked_text the
\* plan is empty, no synthesis call is made, and the run returns success.
C18_EmptyTextIsNoOpSuccess ==
    (entry = "infer_chunked_text" /\ strip(text) = <<>> /\ pc # "plan") =>
        /\ texts_with_filenames = <<>>
        /\ calls = <<>>
        /\ (Returned => result.success)

\* C20: when infer_chunked_text returns, with success or with failure, no
\* silence_<i>.wav file is left in the working directory.
C20_NoSilenceFileAtReturn ==
    Returned => \A f \in files : ~StartsWith(f.name, "silence_")

\* infer_chunked_text is returning to its caller
AtReturn == RanInfer /\ pc = ReturnPc

\* C14: for text that is empty or whitespace-only, handler reports an input
\* error at once: no temporary directory, no plan, no synthesis call and no
\* file exists before or when the error response is returned.
C14_EmptyTextRejectedImmediately ==
    (entry = "handler" /\ strip(text) = <<>>) =>
        /\ temp_dir = "none"
        /\ texts_with_filenames = <<>>
        /\ calls = <<>>
        /\ files = {}
        /\ pc \in {"handler", "done"}
        /\ (pc = "done" => response.kind = "error")

C14_Witness ==
    /\ entry = "handler"
    /\ text = <<" ">>
    /\ pc = "done"
    /\ response.kind = "error"
    /\ temp_dir = "none"

\* C15: when a multi-chunk run of infer_chunked_text returns success, every
\* per-chunk file and every silence file of the run is gone unless its
\* deletion failed, the final file is there and complete, and the result is
\* success with the final path whether or not a deletion failed.
C15_IntermediateFilesDeleted ==
    (AtReturn /\ result.success /\ Len(texts_with_filenames) > 1) =>
        LET n == Len(texts_with_filenames)
        IN /\ result.path = final_path
           /\ Exists(files, final_path)
           /\ Content(files, final_path).complete
           /\ \A k \in 1..n :
                 LET chunk_audio_path == WavPath(texts_with_filenames[k].filename)
                 IN Exists(files, chunk_audio_path) => chunk_audio_path \in unlink_failed
           /\ \A i \in 0..(n - 2) :
                 Exists(files, SilencePath(i)) => SilencePath(i) \in unlink_failed

C15_Witness ==
    /\ AtReturn
    /\ result.success
    /\ Len(texts_with_filenames) = 3
    /\ add_silence
    /\ unlink_failed = {SilencePath(1)}
    /\ Exists(files, SilencePath(1))
    /\ ~Exists(files, SilencePath(0))
    /\ \A k \in 1..3 : ~Exists(files, WavPath(texts_with_filenames[k].filename))
    /\ Exists(files, final_path)

\* C17: a successful handler response has chunked = true exactly when the
\* chunk plan of the request text has more than one entry, and then
\* chunks_processed is the number of plan entries; a text whose trimmed
\* form fits the budget is reported as not chunked.
C17_ChunkedFlagAgreesWithPlan ==
    (entry = "handler" /\ response.kind = "audio") =>
        LET r == prepare_chunked_texts(text, max_chars)
        IN /\ response.chunked <=> (enable_chunking /\ r.is_chunked)
           /\ response.chunked => response.chunks_processed = Len(r.plan)
           /\ is_chunk_valid(strip(text), max_chars) => ~response.chunked

(***************************************************************************)
(* The buffer between the levels of chunk_text (checked under SpecChunker) *)
(***************************************************************************)
\* the pair [chunks, current_chunk] after the first k sentences of the text
AfterSentences(k) ==
    SentenceLoop(SubSeq(split_by_sentences(strip(text)), 1, k), 1,
                 [chunks |-> <<>>, current_chunk |-> <<>>], max_chars)

\* C19: the buffer left when the clauses (and word sub-chunks) of an
\* oversized sentence have been processed is emitted as a piece of its own
\* before the next sentence is considered, so no piece joins text of an
\* oversized sentence with text of the sentence that follows it.
C19_BufferFlushedAfterOversizedSentence ==
    (pc # "start" /\ strip(text) # <<>> /\ ~is_chunk_valid(strip(text), max_chars)) =>
        LET sentences == split_by_sentences(strip(text))
        IN \A k \in 1..(Len(sentences) - 1) :
              LET st == AfterSentences(k)
                  emitted == Len(st.chunks) + 1
              IN (Len(sentences[k]) > max_chars /\ strip(st.current_chunk) # <<>>) =>
                    /\ Len(chunks) >= emitted
                    /\ chunks[emitted] = strip(st.current_chunk)

(***************************************************************************)
(* The stages of infer_chunked_text (checked under FairSpec)               *)
(***************************************************************************)
Planning == pc = "plan"
Synthesizing == pc \in {"synth", "check"}
Assembling == pc \in {"after", "silence", "load", "save", "cleanup"}
Succeeded == Returned /\ result.success /\ result.path = final_path
Failed == Returned /\ ~result.success /\ result.path = <<>>

\* the position of a stage in Planning, Synthesizing, Assembling, ended
StageRank(p) ==
    IF p = "handler" THEN 0
    ELSE IF p = "plan" THEN 1
    ELSE IF p \in {"synth", "check"} THEN 2
    ELSE IF p \in {"after", "silence", "load", "save", "cleanup"} THEN 3
    ELSE 4

IsContentChar(c) == c \notin (Whitespace \cup sentence_ends \cup clause_boundaries)

\* the characters of t that are neither whitespace nor a delimiter, in order
ContentChars(t) == SelectSeq(t, IsContentChar)

\* for every content character of t, in order: is it the first of its word?
WordStarts(t) ==
    LET marked == [j \in 1..Len(t) |->
                      [char |-> t[j], first |-> j = 1 \/ ~IsContentChar(t[j - 1])]]
        content == SelectSeq(marked, LAMBDA m : IsContentChar(m.char))
    IN [k \in 1..Len(content) |-> content[k].first]

\* the pieces one after the other, each piece starting a new word
RECURSIVE PiecesContent(_)
PiecesContent(ps) ==
    IF ps = <<>> THEN <<>> ELSE ContentChars(Head(ps)) \o PiecesContent(Tail(ps))

RECURSIVE PiecesWordStarts(_)
PiecesWordStarts(ps) ==
    IF ps = <<>> THEN <<>> ELSE WordStarts(Head(ps)) \o PiecesWordStarts(Tail(ps))

\* C21: chunk_text keeps the content characters: the characters that are
\* neither whitespace nor a sentence or clause delimiter, read across the
\* returned pieces in order, are those of the input in the same order, none
\* dropped, repeated or moved; and a character that starts a word in the
\* input starts a word in the pieces, so two words of the input are never
\* fused into one.
C21_ContentCharactersPreserved ==
    pc # "start" =>
        LET in_text == WordStarts(text)
            in_pieces == PiecesWordStarts(chunks)
        IN /\ PiecesContent(chunks) = ContentChars(text)
           /\ Len(in_pieces) = Len(in_text)
           /\ \A k \in 1..Len(in_text) : in_text[k] => in_pieces[k]

C21_Witness ==
    /\ pc = "chunked"
    /\ text = TwoSentences
    /\ max_chars = 3
    /\ chunks = << <<"a", "a">>, <<"a", " ", "b">> >>
    /\ PiecesContent(chunks) = <<"a", "a", "a", "b">>
    /\ PiecesWordStarts(chunks) = <<TRUE, FALSE, TRUE, TRUE>>

====
